---- MODULE Spec2Model ----
(***************************************************************************)
(* A model of main.go of asimshankar/visionapi: a command-line client that *)
(* loads local image files, packs them into size-bounded batches for the   *)
(* Google Cloud Vision API (mainGoogle, executeRequest) or sends them one  *)
(* by one to the Microsoft API (mainMicrosoft), and prints per-file        *)
(* results.                                                                *)
(*                                                                         *)
(* Conventions.  Byte slices are modelled by their length.  Filenames are  *)
(* the serial numbers of the files in discovery order.  Confidences are    *)
(* integers (tenths).  The outside world (command line, environment,       *)
(* filesystem, the two remote services) is the source of every \E.         *)
(***************************************************************************)
EXTENDS Integers, Sequences, FiniteSets

VARIABLES
    pc,               \* where the process is: "main", "mainGoogle", "google", ...
    exitCode,         \* -1 while running, then 0 (return), 1 (log.Fatal), 2 (panic)
    providerFlag,     \* the value of --api as typed
    apiKey,           \* whether MICROSOFT_API_KEY is non-empty
    verbose,          \* the value of -v
    args,             \* flag.Args(): the file patterns
    concurrentWrites, \* whether other processes rewrite files while the tool runs
    pattern,          \* index in args of the next pattern to expand
    matches,          \* the matches of the current pattern still to be processed
    request,          \* request.Requests
    requestSize,      \* requestSize
    requestFiles,     \* requestFiles
    calls,            \* every call made to a remote service, in order
    stdout,           \* the result lines printed, in order
    stderr,           \* the diagnostics printed, in order
    discovered,       \* every filename returned by filepath.Glob, in order
    loaded,           \* every file loadFile returned successfully, in order
    input,            \* argument of the function under test (SpecLoad, SpecRank)
    output            \* its result

vars == <<pc, exitCode, providerFlag, apiKey, verbose, args, concurrentWrites,
          pattern, matches, request, requestSize, requestFiles, calls, stdout,
          stderr, discovered, loaded, input, output>>

---------------------------------------------------------------------------
(* Bounds of the model *)

\* at most this many patterns on the command line
MaxPatterns == 2
\* at most this many files matched by all the patterns together
MaxFiles == 3
\* at most this many label annotations in one response (SpecRank)
MaxLabels == 3

---------------------------------------------------------------------------
(* Program constants *)

MiB == 1048576

\* 4 << 20, the per-file limit of loadFile
MaxFileBytes == 4 * MiB
\* 8 << 20, the per-request limit of mainGoogle
MaxRequestBytes == 8 * MiB
MinWidth == 640
MinHeight == 480

---------------------------------------------------------------------------
(* Helpers on sequences *)

RECURSIVE Sum(_)
Sum(s) == IF s = <<>> THEN 0 ELSE Head(s) + Sum(Tail(s))

RECURSIVE Concat(_)
Concat(ss) == IF ss = <<>> THEN <<>> ELSE Head(ss) \o Concat(Tail(ss))

Min(a, b) == IF a < b THEN a ELSE b

Range(s) == {s[i] : i \in 1..Len(s)}

---------------------------------------------------------------------------
(* The command line and the environment *)

\* values of --api a user may type
ProviderFlags == {"google", "MICROSOFT", "auto", "bing"}

\* strings.ToLower on the values above
ToLower(s) == IF s = "MICROSOFT" THEN "microsoft" ELSE s

\* the patterns a user may type: "[" is malformed (filepath.ErrBadPattern)
Patterns == {"[", "*.jpg"}

BadPattern_None(p) == FALSE

BadPattern(p) == p = "["

ArgLists == UNION {[1..n -> Patterns] : n \in 0..MaxPatterns}

---------------------------------------------------------------------------
(* The filesystem: what loadFile can meet *)

\* stat: os.Stat succeeds; size: stat.Size(); read: ioutil.ReadFile succeeds;
\* len: the number of bytes ReadFile returns; decode: image.Decode succeeds;
\* x, y: the decoded image's bounds
FileRecs(sizes, lens) ==
    [stat : BOOLEAN, size : sizes, read : BOOLEAN, len : lens, decode : BOOLEAN,
     x : {MinWidth - 1, MinWidth}, y : {MinHeight - 1, MinHeight}]

FileSizes == {3 * MiB, MaxFileBytes, MaxFileBytes + 1}

\* a file nobody writes to has the length os.Stat reported
StableFiles == {f \in FileRecs(FileSizes, FileSizes) : f.len = f.size}

\* a file that grew between os.Stat and ioutil.ReadFile
GrownFiles == FileRecs(FileSizes, {9 * MiB})

Files(racy) == IF racy THEN StableFiles \cup GrownFiles ELSE StableFiles

\* loadFile: the checks in the order of the code; the result is (byts, err)
loadFile(f) ==
    IF ~f.stat THEN [err |-> "stat failed", byts |-> 0]
    ELSE IF f.size > MaxFileBytes THEN [err |-> "file size", byts |-> 0]
    ELSE IF ~f.read THEN [err |-> "read failed", byts |-> 0]
    ELSE IF ~f.decode THEN [err |-> "failed to decode image", byts |-> 0]
    ELSE IF f.x < MinWidth \/ f.x < MinHeight THEN [err |-> "image size", byts |-> 0]
    ELSE [err |-> "nil", byts |-> f.len]

\* `if err != nil { ...; continue }` after loadFile
LoadFailed_Ignored(r) == FALSE

LoadFailed(r) == r.err # "nil"

---------------------------------------------------------------------------
(* Diagnostics and output lines *)

\* one line on stderr, reduced to the fixed part of its text (kind), the
\* filename, pattern index or call index it names (subject) and a tag; the
\* text of the error value printed after it is left out
Diag(kind, subject, detail) == [kind |-> kind, subject |-> subject, detail |-> detail]

\* base64.StdEncoding.EncodeToString: the length of the encoding of n bytes
Base64Len(n) == 4 * ((n + 2) \div 3)

\* one vision.AnnotateImageRequest: file and raw identify the bytes encoded
ImageRequest(filename, n) ==
    [file |-> filename, raw |-> n, content |-> Base64Len(n),
     feature |-> "LABEL_DETECTION"]

---------------------------------------------------------------------------
(* The ranker: entityAnnotationsByConfidence and sort.Sort *)

Confidences == {1, 5, 9}

\* a vision.EntityAnnotation, reduced to the two fields the program reads
Annotation(d, c) == [Description |-> d, Confidence |-> c]

\* every label list of at most MaxLabels annotations; the description of an
\* annotation is its position in the response, so that equal confidences
\* remain distinguishable
LabelLists ==
    UNION {{[i \in 1..n |-> Annotation(i, c[i])] : c \in [1..n -> Confidences]} :
           n \in 0..MaxLabels}

\* the label list of the example: confidences 0.9, 0.1, 0.5
ExampleLabels == <<Annotation(1, 9), Annotation(2, 1), Annotation(3, 5)>>

\* entityAnnotationsByConfidence.Less, on the elements at i and j
Less_Descending(a, b) == a.Confidence > b.Confidence

Less(a, b) == a.Confidence < b.Confidence

Permutations(l) ==
    {[i \in 1..Len(l) |-> l[f[i]]] :
        f \in {g \in [1..Len(l) -> 1..Len(l)] : \A i, j \in 1..Len(l) : g[i] = g[j] => i = j}}

\* sort.Sort(labels): package sort promises an ordering by Less and no
\* stability ("The sort is not guaranteed to be stable"), so the result is any
\* permutation in which no element is Less than one before it
SortOutcomes(l) ==
    {p \in Permutations(l) : \A i, j \in 1..Len(p) : i < j => ~Less(p[j], p[i])}

\* entityAnnotationsByConfidence.String: the descriptions, in order
String(l) == [i \in 1..Len(l) |-> l[i].Description]

---------------------------------------------------------------------------
(* The Cloud Vision service *)

\* service.Images.Annotate(request).Do() on a request of k images: an error,
\* or a response holding any number of per-image responses
AnnotateResults(k) ==
    {[err |-> TRUE, responses |-> <<>>]} \cup
    {[err |-> FALSE, responses |-> [i \in 1..n |-> ExampleLabels]] : n \in 0..(k + 1)}

\* one sort.Sort outcome for each response
SortChoices(responses) ==
    {s \in [1..Len(responses) -> UNION {SortOutcomes(responses[i]) : i \in 1..Len(responses)}] :
        \A i \in 1..Len(responses) : s[i] \in SortOutcomes(responses[i])}

\* `if err != nil { fmt.Fprintln(os.Stderr, ...); return }`
FailureReport_Silent(err, id) == <<>>

FailureReport(err, id) ==
    IF err THEN <<Diag("Cloud Vision API request failed", id, "err")>> ELSE <<>>

\* `if verbose { log.Printf(...) }`: the response dumped on stderr
VerboseDump_Never(err, id) == <<>>

VerboseDump(err, id) ==
    IF ~err /\ verbose THEN <<Diag("response", id, "json")>> ELSE <<>>

\* `requestFiles[i]` in the loop over the responses
FileAt_Reversed(files, i) == files[Len(files) + 1 - i]

FileAt(files, i) == files[i]

\* executeRequest(service, request, requestFiles, verbose), given what the
\* service returns and how sort.Sort orders each response; err0 is stderr at
\* the time of the call.  The loop prints one line per response and
\* requestFiles[i] panics for i past the last file; a failed call returns
\* before the loop.
executeRequest(result, sorted, err0) ==
    LET id == Len(calls) + 1
        n == Min(Len(result.responses), Len(requestFiles))
        lines == [i \in 1..n |->
                    [file |-> FileAt(requestFiles, i), text |-> "labels",
                     labels |-> String(sorted[i]), call |-> id, resp |-> i]]
    IN [calls |-> Append(calls, [api |-> "google", files |-> requestFiles,
                                 request |-> request, err |-> result.err,
                                 responses |-> Len(result.responses)]),
        stdout |-> IF result.err THEN stdout ELSE stdout \o lines,
        stderr |-> err0 \o FailureReport(result.err, id) \o VerboseDump(result.err, id),
        panic |-> ~result.err /\ Len(result.responses) > Len(requestFiles)]

---------------------------------------------------------------------------
(* The state after construction *)

\* nothing has run yet
Fresh ==
    /\ exitCode = -1
    /\ pattern = 1
    /\ matches = <<>>
    /\ request = <<>>
    /\ requestSize = 0
    /\ requestFiles = <<>>
    /\ calls = <<>>
    /\ stdout = <<>>
    /\ stderr = <<>>
    /\ discovered = <<>>
    /\ loaded = <<>>

CommandLine ==
    /\ providerFlag \in ProviderFlags
    /\ apiKey \in BOOLEAN
    /\ verbose \in BOOLEAN
    /\ args \in ArgLists

\* a run on files that nobody else is writing
Init ==
    /\ pc = "main"
    /\ CommandLine
    /\ concurrentWrites = FALSE
    /\ Fresh
    /\ input = <<>>
    /\ output = <<>>

\* a run during which other processes may rewrite the files; the flags that
\* do not touch the handling of files are fixed, one command line per provider
InitRace ==
    /\ pc = "main"
    /\ providerFlag \in {"google", "MICROSOFT"}
    /\ apiKey = TRUE
    /\ verbose = FALSE
    /\ args \in ArgLists
    /\ concurrentWrites = TRUE
    /\ Fresh
    /\ input = <<>>
    /\ output = <<>>

Terminated == pc \in {"done", "fatal", "panic"}

---------------------------------------------------------------------------
(* main *)

\* log.Fatal / log.Fatalf: the message, then os.Exit(1)
Fatal(message) ==
    /\ stderr' = Append(stderr, Diag(message, 0, "fatal"))
    /\ pc' = "fatal"
    /\ exitCode' = 1

\* the switch on *provider
Selected_AutoGoogle(p) ==
    IF p = "google" THEN "mainGoogle"
    ELSE IF p = "microsoft" THEN "mainMicrosoft"
    ELSE IF p = "auto" THEN "mainGoogle"
    ELSE "default"

Selected(p) ==
    IF p = "google" THEN "mainGoogle"
    ELSE IF p = "microsoft" THEN "mainMicrosoft"
    ELSE IF p = "auto" THEN (IF apiKey THEN "mainMicrosoft" ELSE "mainGoogle")
    ELSE "default"

Main ==
    /\ pc = "main"
    /\ IF Len(args) < 1
       THEN /\ stderr' = Append(stderr, Diag("Usage", 0, "usage"))
            /\ pc' = "done"
            /\ exitCode' = 0
            /\ UNCHANGED providerFlag
       ELSE /\ providerFlag' = ToLower(providerFlag)
            /\ IF Selected(ToLower(providerFlag)) = "default"
               THEN Fatal("Invalid --provider")
               ELSE /\ pc' = Selected(ToLower(providerFlag))
                    /\ UNCHANGED <<stderr, exitCode>>
    /\ UNCHANGED <<apiKey, verbose, args, concurrentWrites, pattern, matches, request,
                   requestSize, requestFiles, calls, stdout, discovered, loaded,
                   input, output>>

\* filepath.Glob on a well-formed pattern: the names of k files, numbered in
\* discovery order
Glob(k) == [i \in 1..k |-> Len(discovered) + i]

---------------------------------------------------------------------------
(* mainGoogle *)

\* lines 108-121: google.DefaultClient fails when the environment holds no
\* credentials; vision.New does not fail on the client it is given
GoogleInit ==
    /\ pc = "mainGoogle"
    /\ \E credentials \in BOOLEAN :
          IF ~credentials
          THEN /\ Fatal("google.DefaultClient")
               /\ UNCHANGED <<request, requestSize, requestFiles>>
          ELSE /\ pc' = "google"
               /\ request' = <<>>
               /\ requestSize' = 0
               /\ requestFiles' = <<>>
               /\ UNCHANGED <<stderr, exitCode>>
    /\ UNCHANGED <<providerFlag, apiKey, verbose, args, concurrentWrites, pattern,
                   matches, calls, stdout, discovered, loaded, input, output>>

\* lines 122-127: the head of the loop over the patterns
GoogleGlob ==
    /\ pc = "google"
    /\ matches = <<>>
    /\ pattern <= Len(args)
    /\ pattern' = pattern + 1
    /\ IF BadPattern(args[pattern])
       THEN /\ stderr' = Append(stderr, Diag("Invalid file pattern", pattern, args[pattern]))
            /\ UNCHANGED <<matches, discovered>>
       ELSE \E k \in 0..(MaxFiles - Len(discovered)) :
               /\ matches' = Glob(k)
               /\ discovered' = discovered \o Glob(k)
               /\ UNCHANGED stderr
    /\ UNCHANGED <<pc, exitCode, providerFlag, apiKey, verbose, args, concurrentWrites,
                   request, requestSize, requestFiles, calls, stdout, loaded,
                   input, output>>

\* `requestSize+len(byts) > 8<<20`
Overflows_FileOnly(size, n) == n > MaxRequestBytes

Overflows_AtLimit(size, n) == size + n >= MaxRequestBytes

Overflows(size, n) == size + n > MaxRequestBytes

\* `requestFiles = append(requestFiles, filename)`
AppendFilename_Front(files, filename) == <<filename>> \o files

AppendFilename(files, filename) == Append(files, filename)

\* `request.Requests = nil` after a flush
ResetRequests_Kept(requests) == requests

ResetRequests(requests) == <<>>

\* `requestSize = 0` after a flush
ResetSize_Kept(size) == size

ResetSize(size) == 0

\* `requestFiles = nil` after a flush
ResetFiles(files) == <<>>

\* lines 128-150: one iteration of the loop over the matches
GoogleFile ==
    /\ pc = "google"
    /\ matches # <<>>
    /\ \E f \in Files(concurrentWrites) :
          LET filename == Head(matches)
              r == loadFile(f)
              logged == Append(stderr, Diag("is bytes and pixels", filename, "log"))
          IN /\ matches' = Tail(matches)
             /\ loaded' = IF r.err = "nil"
                          THEN Append(loaded, [file |-> filename, len |-> r.byts])
                          ELSE loaded
             /\ IF LoadFailed(r)
                THEN /\ stderr' = Append(stderr, Diag("Unable to load", filename, "err"))
                     /\ UNCHANGED <<pc, exitCode, request, requestSize, requestFiles,
                                    calls, stdout>>
                ELSE IF Overflows(requestSize, r.byts)
                THEN \E result \in AnnotateResults(Len(request)) :
                     \E sorted \in SortChoices(result.responses) :
                        LET e == executeRequest(result, sorted, logged)
                        IN /\ calls' = e.calls
                           /\ stdout' = e.stdout
                           /\ stderr' = e.stderr
                           /\ IF e.panic
                              THEN /\ pc' = "panic"
                                   /\ exitCode' = 2
                                   /\ UNCHANGED <<request, requestSize, requestFiles>>
                              ELSE /\ request' = Append(ResetRequests(request),
                                                          ImageRequest(filename, r.byts))
                                   /\ requestSize' = ResetSize(requestSize) + r.byts
                                   /\ requestFiles' =
                                          AppendFilename(ResetFiles(requestFiles), filename)
                                   /\ UNCHANGED <<pc, exitCode>>
                ELSE /\ request' = Append(request, ImageRequest(filename, r.byts))
                     /\ requestSize' = requestSize + r.byts
                     /\ requestFiles' = AppendFilename(requestFiles, filename)
                     /\ stderr' = logged
                     /\ UNCHANGED <<pc, exitCode, calls, stdout>>
    /\ UNCHANGED <<providerFlag, apiKey, verbose, args, concurrentWrites, pattern,
                   discovered, input, output>>

\* line 152: the call after the loops, then the return from main
GoogleFinish ==
    /\ pc = "google"
    /\ matches = <<>>
    /\ pattern > Len(args)
    /\ \E result \in AnnotateResults(Len(request)) :
       \E sorted \in SortChoices(result.responses) :
          LET e == executeRequest(result, sorted, stderr)
          IN /\ calls' = e.calls
             /\ stdout' = e.stdout
             /\ stderr' = e.stderr
             /\ pc' = IF e.panic THEN "panic" ELSE "done"
             /\ exitCode' = IF e.panic THEN 2 ELSE 0
    /\ UNCHANGED <<providerFlag, apiKey, verbose, args, concurrentWrites, pattern,
                   matches, request, requestSize, requestFiles, discovered, loaded,
                   input, output>>

---------------------------------------------------------------------------
(* mainMicrosoft *)

\* `len(key) == 0`
KeyMissing_Never(key) == FALSE

KeyMissing(key) == ~key

\* lines 57-61
MicrosoftInit ==
    /\ pc = "mainMicrosoft"
    /\ IF KeyMissing(apiKey)
       THEN Fatal("Must set MICROSOFT_API_KEY")
       ELSE /\ pc' = "microsoft"
            /\ UNCHANGED <<stderr, exitCode>>
    /\ UNCHANGED <<providerFlag, apiKey, verbose, args, concurrentWrites, pattern,
                   matches, request, requestSize, requestFiles, calls, stdout,
                   discovered, loaded, input, output>>

\* lines 62-67
MicrosoftGlob ==
    /\ pc = "microsoft"
    /\ matches = <<>>
    /\ pattern <= Len(args)
    /\ pattern' = pattern + 1
    /\ IF BadPattern(args[pattern])
       THEN /\ stderr' = Append(stderr, Diag("Invalid file pattern", pattern, args[pattern]))
            /\ UNCHANGED <<matches, discovered>>
       ELSE \E k \in 0..(MaxFiles - Len(discovered)) :
               /\ matches' = Glob(k)
               /\ discovered' = discovered \o Glob(k)
               /\ UNCHANGED stderr
    /\ UNCHANGED <<pc, exitCode, providerFlag, apiKey, verbose, args, concurrentWrites,
                   request, requestSize, requestFiles, calls, stdout, loaded,
                   input, output>>

\* what client.Do and the JSON decoder can do with one request
AnalyzeResults == {"transport", "decode", "ok"}

\* the two `if err != nil { ...; continue }` before the line is printed
Printed_Always(result) == TRUE

Printed(result) == result = "ok"

\* lines 68-103: one iteration of the loop over the matches.  http.NewRequest
\* cannot fail on a constant method and URL, so line 79 is never taken.
MicrosoftFile ==
    /\ pc = "microsoft"
    /\ matches # <<>>
    /\ \E f \in Files(concurrentWrites) :
          LET filename == Head(matches)
              r == loadFile(f)
              logged == Append(stderr, Diag("is bytes and pixels", filename, "log"))
              id == Len(calls) + 1
          IN /\ matches' = Tail(matches)
             /\ loaded' = IF r.err = "nil"
                          THEN Append(loaded, [file |-> filename, len |-> r.byts])
                          ELSE loaded
             /\ IF LoadFailed(r)
                THEN /\ stderr' = Append(stderr, Diag("Unable to load", filename, "err"))
                     /\ UNCHANGED <<calls, stdout>>
                ELSE \E result \in AnalyzeResults :
                        /\ calls' = Append(calls,
                              [api |-> "microsoft", files |-> <<filename>>,
                               request |-> <<[file |-> filename, raw |-> r.byts,
                                              content |-> r.byts,
                                              feature |-> "Description,Tags"]>>,
                               err |-> result = "transport",
                               responses |-> IF result = "transport" THEN 0 ELSE 1])
                        /\ IF Printed(result)
                           THEN /\ stdout' = Append(stdout,
                                      [file |-> filename, text |-> "json",
                                       labels |-> <<>>, call |-> id, resp |-> 1])
                                /\ stderr' = logged
                           ELSE /\ stderr' = Append(logged,
                                      Diag("HTTP request failed", filename, "err"))
                                /\ UNCHANGED stdout
    /\ UNCHANGED <<pc, exitCode, providerFlag, apiKey, verbose, args, concurrentWrites,
                   pattern, request, requestSize, requestFiles, discovered,
                   input, output>>

\* the loops are over: mainMicrosoft and main return
MicrosoftFinish ==
    /\ pc = "microsoft"
    /\ matches = <<>>
    /\ pattern > Len(args)
    /\ pc' = "done"
    /\ exitCode' = 0
    /\ UNCHANGED <<providerFlag, apiKey, verbose, args, concurrentWrites, pattern,
                   matches, request, requestSize, requestFiles, calls, stdout, stderr,
                   discovered, loaded, input, output>>

---------------------------------------------------------------------------
(* loadFile and the ranker on their own *)

\* every file loadFile can be given
InitLoad ==
    /\ pc = "loadFile"
    /\ providerFlag = "google"
    /\ apiKey = FALSE
    /\ verbose = FALSE
    /\ args = <<>>
    /\ concurrentWrites = TRUE
    /\ Fresh
    /\ input \in StableFiles \cup GrownFiles
    /\ output = [err |-> "pending", byts |-> 0]

\* byts, err := loadFile(filename)
LoadFileCall ==
    /\ pc = "loadFile"
    /\ output' = loadFile(input)
    /\ pc' = "loadFile returned"
    /\ UNCHANGED <<exitCode, providerFlag, apiKey, verbose, args, concurrentWrites,
                   pattern, matches, request, requestSize, requestFiles, calls,
                   stdout, stderr, discovered, loaded, input>>

\* every label list of one response
InitRank ==
    /\ pc = "rank"
    /\ providerFlag = "google"
    /\ apiKey = FALSE
    /\ verbose = FALSE
    /\ args = <<>>
    /\ concurrentWrites = FALSE
    /\ Fresh
    /\ input \in LabelLists
    /\ output = <<>>

\* lines 170-172: the conversion, sort.Sort, and the list fmt prints via String
RankCall ==
    /\ pc = "rank"
    /\ \E sorted \in SortOutcomes(input) : output' = String(sorted)
    /\ pc' = "ranked"
    /\ UNCHANGED <<exitCode, providerFlag, apiKey, verbose, args, concurrentWrites,
                   pattern, matches, request, requestSize, requestFiles, calls,
                   stdout, stderr, discovered, loaded, input>>

---------------------------------------------------------------------------
(* The specifications *)

Next ==
    \/ Main
    \/ GoogleInit
    \/ GoogleGlob
    \/ GoogleFile
    \/ GoogleFinish
    \/ MicrosoftInit
    \/ MicrosoftGlob
    \/ MicrosoftFile
    \/ MicrosoftFinish

\* the program, on files nobody else is writing
Spec == Init /\ [][Next]_vars

\* the program, while other processes may rewrite the files it reads
SpecRace == InitRace /\ [][Next]_vars

\* loadFile applied to every file
SpecLoad == InitLoad /\ [][LoadFileCall]_vars

\* the ranking applied to every label list
SpecRank == InitRank /\ [][RankCall]_vars

---------------------------------------------------------------------------
(* What the properties speak of *)

\* the provider path main selects
Path == Selected(ToLower(providerFlag))

\* the file lists of the batches passed to executeRequest, in dispatch order
BatchFiles == [i \in 1..Len(calls) |-> calls[i].files]

\* the names of the files loadFile returned, in discovery order
LoadedNames == [i \in 1..Len(loaded) |-> loaded[i].file]

\* the raw byte lengths of the images of a call
RawSizes(c) == [i \in 1..Len(c.request) |-> c.request[i].raw]

\* the files loadFile has been called on so far
Attempted == SubSeq(discovered, 1, Len(discovered) - Len(matches))

IsPrefix(s, t) == Len(s) <= Len(t) /\ s = SubSeq(t, 1, Len(s))

\* the number of lines of log of the given kind about the given subject
Count(log, kind, subject) ==
    Cardinality({i \in 1..Len(log) : log[i].kind = kind /\ log[i].subject = subject})

---------------------------------------------------------------------------
(* The properties *)

\* C1: in the Google path the batches passed to executeRequest, concatenated
\* in dispatch order, are the successfully loaded files in discovery order:
\* while the scan runs, the dispatched batches followed by the batch being
\* built are the files loaded so far; when the run is done, the dispatched
\* batches are all the loaded files; nothing is ever dispatched twice or out
\* of order.
C1_BatchesPartitionLoaded ==
    Path = "mainGoogle" =>
        /\ IsPrefix(Concat(BatchFiles), LoadedNames)
        /\ pc = "google" => Concat(BatchFiles) \o requestFiles = LoadedNames
        /\ pc = "done" => Concat(BatchFiles) = LoadedNames

C1_Witness ==
    /\ Path = "mainGoogle"
    /\ pc = "done"
    /\ Len(discovered) = 3
    /\ BatchFiles = << <<1, 2>>, <<3>> >>

\* C2: a batch of two or more files has at most 8 MiB of raw bytes, and a
\* batch of more than 8 MiB is one file that is itself larger than 8 MiB.
C2_BatchWithinLimit ==
    \A i \in 1..Len(calls) :
        calls[i].api = "google" =>
            /\ Len(calls[i].request) >= 2 => Sum(RawSizes(calls[i])) <= MaxRequestBytes
            /\ Sum(RawSizes(calls[i])) > MaxRequestBytes =>
                   /\ Len(calls[i].request) = 1
                   /\ calls[i].request[1].raw > MaxRequestBytes

C2_Witness ==
    /\ \E i \in 1..Len(calls) :
          /\ calls[i].api = "google"
          /\ Len(calls[i].request) = 2
          /\ Sum(RawSizes(calls[i])) = MaxRequestBytes
    /\ \E i \in 1..Len(calls) :
          /\ calls[i].api = "google"
          /\ Len(calls[i].request) = 1
          /\ Sum(RawSizes(calls[i])) > MaxRequestBytes

\* C3: every call of executeRequest is made with a batch of at least one file
\* (so no call is made when no file was loaded).
C3_OnlyNonEmptyBatches ==
    \A i \in 1..Len(calls) :
        calls[i].api = "google" => Len(calls[i].files) >= 1

\* C4: when exactly one file reaches the packing loop, exactly one batch is
\* dispatched and it holds exactly that file, whatever the size of the file.
C4_SingleFileSingleBatch ==
    (Path = "mainGoogle" /\ pc = "done" /\ Len(loaded) = 1) =>
        BatchFiles = << <<loaded[1].file>> >>

\* C5: a batch whose call fails is reported as failed, once, and no result
\* line is printed for it or for any of its files.
C5_FailedBatchPrintsNothing ==
    \A i \in 1..Len(calls) :
        (calls[i].api = "google" /\ calls[i].err) =>
            /\ Count(stderr, "Cloud Vision API request failed", i) = 1
            /\ \A k \in 1..Len(stdout) :
                  /\ stdout[k].call # i
                  /\ stdout[k].file \notin Range(calls[i].files)

C5_Witness ==
    /\ Len(calls) = 2
    /\ calls[1].api = "google"
    /\ calls[1].err
    /\ Len(calls[1].files) = 2
    /\ ~calls[2].err
    /\ Len(stdout) = 1
    /\ pc = "done"

\* C6: a file loadFile returns successfully is at least 640 wide and at
\* least 480 high.
C6_LoadedMeetsMinimum ==
    (pc = "loadFile returned" /\ output.err = "nil") =>
        (input.x >= MinWidth /\ input.y >= MinHeight)

\* C7: a file whose load fails is reported once, is in no batch and in no
\* call, and does not stop the run: when the run is done every pattern has
\* been expanded, loadFile has been called on every file found, and every
\* file it returned has been sent, in exactly one call.
C7_FailedLoadSkipped ==
    /\ \A k \in 1..Len(Attempted) :
          Attempted[k] \notin Range(LoadedNames) =>
              /\ Count(stderr, "Unable to load", Attempted[k]) = 1
              /\ Attempted[k] \notin Range(requestFiles)
              /\ \A j \in 1..Len(request) : request[j].file # Attempted[k]
              /\ \A i \in 1..Len(calls) :
                    /\ Attempted[k] \notin Range(calls[i].files)
                    /\ \A j \in 1..Len(calls[i].request) :
                          calls[i].request[j].file # Attempted[k]
    /\ (pc = "done" /\ Len(args) >= 1) =>
          /\ pattern = Len(args) + 1
          /\ Attempted = discovered
          /\ \A k \in 1..Len(loaded) :
                Cardinality({i \in 1..Len(calls) :
                                loaded[k].file \in Range(calls[i].files)}) = 1

C7_Witness ==
    /\ pc = "done"
    /\ Path = "mainGoogle"
    /\ Len(args) = 2
    /\ discovered = <<1, 2, 3>>
    /\ LoadedNames = <<1, 3>>
    /\ Count(stderr, "Unable to load", 2) = 1
    /\ BatchFiles = << <<1, 3>> >>

\* C8: once the provider is set up the run ends in Done with exit code 0:
\* nothing the files, the patterns or the service do ends it otherwise.
C8_AlwaysDone ==
    (Terminated /\ pc # "fatal") => (pc = "done" /\ exitCode = 0)

\* C9: the printed list is a permutation of the response's annotations in
\* order of non-decreasing confidence.
C9_AscendingConfidence ==
    pc = "ranked" =>
        /\ Len(output) = Len(input)
        /\ Range(output) = 1..Len(input)
        /\ \A i, j \in 1..Len(output) :
              i < j => input[output[i]].Confidence <= input[output[j]].Confidence

C9_Witness ==
    /\ pc = "ranked"
    /\ input = ExampleLabels
    /\ output = <<2, 3, 1>>

\* C10: annotations of equal confidence are printed in the order in which
\* the response lists them.
C10_Stable ==
    pc = "ranked" =>
        \A i, j \in 1..Len(output) :
            (i < j /\ input[output[i]].Confidence = input[output[j]].Confidence)
                => output[i] < output[j]

\* the files whose bytes a call carries
Carried(c) == {c.request[a].file : a \in 1..Len(c.request)}

\* the positions of the result lines printed by call i
LinesOf(i) == {k \in 1..Len(stdout) : stdout[k].call = i}

\* C11: each batch is sent once and the accumulator restarts empty after a
\* flush: the files of an earlier call all precede the files of a later call
\* and of the batch being built (so none is sent again), and when the run is
\* done every loaded file has been carried by exactly one call, whether or not
\* earlier calls failed.
C11_NoFileSentTwice ==
    Path = "mainGoogle" =>
        /\ \A i, j \in 1..Len(calls) :
              i < j =>
                  /\ \A a \in Carried(calls[i]), b \in Carried(calls[j]) : a < b
                  /\ \A a \in Range(calls[i].files), b \in Range(calls[j].files) : a < b
        /\ pc = "google" =>
              \A i \in 1..Len(calls) :
                  /\ \A a \in Carried(calls[i]), b \in 1..Len(request) :
                        a < request[b].file
                  /\ \A a \in Range(calls[i].files), b \in Range(requestFiles) : a < b
        /\ pc = "done" =>
              \A k \in 1..Len(loaded) :
                  Cardinality({i \in 1..Len(calls) :
                                  loaded[k].file \in Carried(calls[i])}) = 1

C11_Witness ==
    /\ Path = "mainGoogle"
    /\ pc = "done"
    /\ Len(calls) = 2
    /\ calls[1].err
    /\ Carried(calls[1]) = {1, 2}
    /\ ~calls[2].err
    /\ Carried(calls[2]) = {3}
    /\ Len(stdout) = 1

\* C12: a successful call on n files answered with n responses prints n
\* lines, the i-th pairing response i with the file at index i of that call;
\* the lines of a run are in discovery order.
C12_LinesPairByIndex ==
    Path = "mainGoogle" =>
        /\ \A i \in 1..Len(calls) :
              (~calls[i].err /\ calls[i].responses = Len(calls[i].files)) =>
                  /\ Cardinality(LinesOf(i)) = Len(calls[i].files)
                  /\ {stdout[k].resp : k \in LinesOf(i)} = 1..Len(calls[i].files)
                  /\ \A k \in LinesOf(i) :
                        /\ stdout[k].file = calls[i].files[stdout[k].resp]
                        /\ stdout[k].file = calls[i].request[stdout[k].resp].file
                  /\ \A k, m \in LinesOf(i) : k < m => stdout[k].resp < stdout[m].resp
        /\ \A k, m \in 1..Len(stdout) : k < m => stdout[k].file < stdout[m].file

C12_Witness ==
    /\ Path = "mainGoogle"
    /\ pc = "done"
    /\ Len(calls) = 2
    /\ calls[1].files = <<1, 2>>
    /\ calls[1].responses = 2
    /\ calls[2].files = <<3>>
    /\ calls[2].responses = 1
    /\ Len(stdout) = 3

\* C13: a fatal configuration error ends the process before anything is
\* processed.  In a state reached by log.Fatal the exit status is 1 and no
\* pattern has been expanded, no file discovered or loaded, no backend call
\* made and no result printed.  With at least one argument, a provider flag
\* that is none of google, microsoft, auto (after lower-casing) leaves main
\* only into that state, and so does the Microsoft path without a
\* subscription key; no scan state is entered either way.  Until a path has
\* obtained its client or key, nothing has been processed.
C13_FatalBeforeProcessing ==
    /\ pc = "fatal" =>
          /\ exitCode = 1
          /\ pattern = 1
          /\ matches = <<>>
          /\ discovered = <<>>
          /\ loaded = <<>>
          /\ calls = <<>>
          /\ stdout = <<>>
          /\ request = <<>>
    /\ pc \in {"main", "mainGoogle", "mainMicrosoft"} =>
          /\ pattern = 1
          /\ discovered = <<>>
          /\ loaded = <<>>
          /\ calls = <<>>
          /\ stdout = <<>>
    /\ (Len(args) >= 1 /\ pc # "main"
        /\ providerFlag \notin {"google", "microsoft", "auto"}) => pc = "fatal"
    /\ (Len(args) >= 1 /\ pc \notin {"main", "mainMicrosoft"}
        /\ providerFlag = "microsoft" /\ ~apiKey) => pc = "fatal"

C13_Witness ==
    /\ pc = "fatal"
    /\ providerFlag = "microsoft"
    /\ ~apiKey
    /\ Len(args) = 2
    /\ Count(stderr, "Must set MICROSOFT_API_KEY", 0) = 1

\* C14: a pattern that is malformed or matches nothing is skipped and later
\* patterns are processed as usual.  Every malformed pattern already passed
\* is reported once on stderr and every other pattern never; a scan that has
\* passed its first pattern without finding a file has loaded, batched,
\* dispatched and printed nothing and has not exited.  A run that discovered
\* one file in all and loaded it ends with exactly one backend call carrying
\* that file and never ends in log.Fatal; when that call succeeded (Google:
\* no error and one response; Microsoft: no request failure reported) the
\* run ends normally with status 0 and exactly one result line, for that
\* file.
C14_SkippedPatternHarmless ==
    /\ pc \in {"google", "microsoft", "done", "panic"} =>
          \A p \in 1..Min(pattern - 1, Len(args)) :
             Count(stderr, "Invalid file pattern", p) =
                 (IF args[p] = "[" THEN 1 ELSE 0)
    /\ (pc \in {"google", "microsoft"} /\ pattern = 2 /\ matches = <<>>
        /\ discovered = <<>>) =>
          /\ loaded = <<>>
          /\ calls = <<>>
          /\ stdout = <<>>
          /\ request = <<>>
          /\ requestSize = 0
          /\ requestFiles = <<>>
          /\ exitCode = -1
    /\ (Terminated /\ Len(discovered) = 1 /\ Len(loaded) = 1) =>
          /\ pc # "fatal"
          /\ Cardinality({i \in 1..Len(calls) :
                             discovered[1] \in Carried(calls[i])}) = 1
          /\ \A i \in 1..Len(calls) :
                (/\ discovered[1] \in Carried(calls[i])
                 /\ ~calls[i].err
                 /\ calls[i].responses = 1
                 /\ Count(stderr, "HTTP request failed", discovered[1]) = 0) =>
                    /\ pc = "done"
                    /\ exitCode = 0
                    /\ Len(stdout) = 1
                    /\ stdout[1].file = discovered[1]
                    /\ stdout[1].call = i

C14_Witness ==
    /\ pc = "done"
    /\ args = <<"[", "*.jpg">>
    /\ Count(stderr, "Invalid file pattern", 1) = 1
    /\ Len(discovered) = 1
    /\ Len(loaded) = 1
    /\ Len(calls) = 1
    /\ Len(stdout) = 1
    /\ exitCode = 0

\* C15: in the Microsoft path every successfully loaded file causes exactly
\* one backend call, in discovery order, carrying the bytes of that file and
\* of no other; the batch accumulator of the Google path stays empty
\* throughout.  For every call, either its result line was printed or a
\* request failure for its file was reported, never both and never twice, so
\* that a failed file has no line and what is printed for a file depends on
\* its own call only; a call that failed in transport has no line.  Lines
\* appear in discovery order, each naming the file of its call.
C15_OneCallPerFile ==
    Path = "mainMicrosoft" =>
        /\ request = <<>>
        /\ requestSize = 0
        /\ requestFiles = <<>>
        /\ Len(calls) = Len(loaded)
        /\ \A i \in 1..Len(calls) :
              /\ calls[i].api = "microsoft"
              /\ calls[i].files = <<loaded[i].file>>
              /\ Len(calls[i].request) = 1
              /\ calls[i].request[1].file = loaded[i].file
              /\ calls[i].request[1].raw = loaded[i].len
              /\ calls[i].request[1].content = loaded[i].len
              /\ Cardinality(LinesOf(i))
                   + Count(stderr, "HTTP request failed", loaded[i].file) = 1
              /\ calls[i].err => LinesOf(i) = {}
              /\ \A k \in LinesOf(i) : stdout[k].file = loaded[i].file
        /\ \A k \in 1..Len(stdout) : stdout[k].call \in 1..Len(calls)
        /\ \A k, m \in 1..Len(stdout) : k < m => stdout[k].call < stdout[m].call

C15_Witness ==
    /\ Path = "mainMicrosoft"
    /\ pc = "done"
    /\ Len(calls) = 3
    /\ ~calls[1].err
    /\ calls[2].err
    /\ ~calls[3].err
    /\ Len(stdout) = 2
    /\ stdout[1].file = 1
    /\ stdout[2].file = 3
    /\ Count(stderr, "HTTP request failed", 2) = 1

\* C16 as stated: with the verbose flag set, a Google call that succeeded
\* prints no ranked label line.
C16_VerboseBypassesRanking ==
    (Path = "mainGoogle" /\ verbose) =>
        \A i \in 1..Len(calls) : ~calls[i].err => LinesOf(i) = {}

\* C16, as the code has it: the verbose flag adds the dump of the response
\* to the log and takes nothing away.  A Google call is dumped exactly once
\* when the flag is set and the call succeeded, and never otherwise; with or
\* without the flag a successful call prints one line per response that has
\* a file, each with its labels in ascending order of confidence
\* (Description being the position in the response, a line whose labels are
\* an example list shows the sorted order).
C16_VerboseAddsDump ==
    Path = "mainGoogle" =>
        /\ \A i \in 1..Len(calls) :
              /\ Count(stderr, "response", i) =
                    (IF verbose /\ ~calls[i].err THEN 1 ELSE 0)
              /\ Cardinality(LinesOf(i)) =
                    (IF calls[i].err THEN 0
                     ELSE Min(calls[i].responses, Len(calls[i].files)))
        /\ \A k \in 1..Len(stdout) :
              /\ stdout[k].text = "labels"
              /\ Len(stdout[k].labels) = Len(ExampleLabels)
              /\ \A a, b \in 1..Len(stdout[k].labels) :
                    a < b => ExampleLabels[stdout[k].labels[a]].Confidence
                               <= ExampleLabels[stdout[k].labels[b]].Confidence

C16_Witness ==
    /\ Path = "mainGoogle"
    /\ verbose
    /\ pc = "done"
    /\ Len(calls) = 1
    /\ ~calls[1].err
    /\ calls[1].responses = 2
    /\ Count(stderr, "response", 1) = 1
    /\ Cardinality(LinesOf(1)) = 2

\* C17: loadFile applies its checks in the order stat, size above 4 MiB,
\* read, decode, dimensions, and the first check that fails names the error:
\* in particular a file whose size is above 4 MiB is rejected as too large
\* whether or not it could be read or decoded; and consequently every image
\* of every backend call, in either path, is at most 4 MiB of bytes.
C17_DispatchedWithinFileLimit ==
    /\ \A f \in Files(concurrentWrites) :
          /\ ~f.stat => loadFile(f).err = "stat failed"
          /\ (f.stat /\ f.size > MaxFileBytes) => loadFile(f) = [err |-> "file size", byts |-> 0]
          /\ (f.stat /\ f.size <= MaxFileBytes /\ ~f.read) => loadFile(f).err = "read failed"
          /\ (f.stat /\ f.size <= MaxFileBytes /\ f.read /\ ~f.decode) =>
                loadFile(f).err = "failed to decode image"
          /\ (f.stat /\ f.size <= MaxFileBytes /\ f.read /\ f.decode /\ f.x < MinWidth) =>
                loadFile(f).err = "image size"
          /\ loadFile(f).err = "nil" =>
                f.stat /\ f.size <= MaxFileBytes /\ f.read /\ f.decode /\ f.x >= MinWidth
    /\ \A i \in 1..Len(calls) :
          \A a \in 1..Len(calls[i].request) : calls[i].request[a].raw <= MaxFileBytes

C19_AccumulatorInvariant ==
    Path = "mainGoogle" =>
        /\ Len(request) = Len(requestFiles)
        /\ \A i \in 1..Len(request) :
              /\ request[i].file = requestFiles[i]
              /\ \E k \in 1..Len(loaded) :
                    loaded[k].file = requestFiles[i] /\ loaded[k].len = request[i].raw
        /\ requestSize = Sum([i \in 1..Len(request) |-> request[i].raw])
        /\ request = <<>> => requestSize = 0

C19_Witness ==
    /\ Path = "mainGoogle"
    /\ pc = "google"
    /\ Len(calls) = 1
    /\ calls[1].files = <<1, 2>>
    /\ requestFiles = <<3>>
    /\ requestSize = 3 * MiB
    /\ matches = <<>>

\* C20: a step of the scan that dispatches a batch because the next file
\* does not fit, in a run where every file loaded up to and including that
\* file is at most 4 MiB, dispatches a batch that is not empty and totals
\* strictly more than 4 MiB; the dispatched batch is the accumulator as it
\* stood, and the file that did not fit is not part of it.
C20_OverflowFlushSealsFullBatch ==
    [][(/\ pc = "google"
        /\ matches # <<>>
        /\ Len(calls') = Len(calls) + 1
        /\ \A k \in 1..Len(loaded') : loaded'[k].len <= MaxFileBytes)
       => /\ request # <<>>
          /\ requestFiles # <<>>
          /\ requestSize > MaxFileBytes
          /\ calls'[Len(calls')].files = requestFiles
          /\ calls'[Len(calls')].request = request
          /\ Sum(RawSizes(calls'[Len(calls')])) > MaxFileBytes
          /\ Sum(RawSizes(calls'[Len(calls')])) <= MaxRequestBytes
          /\ Head(matches) \notin Carried(calls'[Len(calls')])]_vars

C20_Witness ==
    /\ concurrentWrites
    /\ pc = "google"
    /\ Len(calls) = 1
    /\ calls[1].files = <<1, 2>>
    /\ Sum(RawSizes(calls[1])) = 2 * MaxFileBytes
    /\ requestFiles = <<3>>
    /\ requestSize = MaxFileBytes
    /\ \A k \in 1..Len(loaded) : loaded[k].len <= MaxFileBytes

====
